---- MODULE Spec2Model ----
(***************************************************************************)
(* Engine lifecycle of jetson_tensorrt::DIGITSClassifier:                  *)
(*   - the constructor (DIGITSClassifier.cpp:46-73): bind the input and    *)
(*     the output, try the engine cache, build and persist on a miss;      *)
(*   - classifyRBGA (DIGITSClassifier.cpp:79-100): upload, colour          *)
(*     conversion, forward pass, result.                                   *)
(* Every call the two functions make is one step; `calls' is the log of    *)
(* the calls made so far, each with its arguments and its outcome.         *)
(***************************************************************************)
EXTENDS Integers, Sequences, FiniteSets, TLC

\* ------------------------------------------------------------------ bounds
\* number of classifyRBGA calls a run makes
MaxCalls == 2

\* ------------------------------------------------------- program constants
INPUT_NAME == "data"
OUTPUT_NAME == "prob"
SizeofFloat == 4
SizeofFloat4 == 16
\* default of loadCache's second parameter
LoadCacheDefaultMaxBatchSize == 1

\* -------------------------------------------------------------- input sets
Paths == {"a.tensorcache", "b.tensorcache"}
Channels == {1, 3}
Widths == {2, 3}
Heights == {2}
Classes == {1, 2}
BatchSizes == {1, 2}
ImageSizes == {<<4, 2>>}
DevicePtrs == {"d1", "d2"}
OutputPtrs == {"o1", "o2"}

NoFile == [kind |-> "none", batch |-> 0]
BadFile == [kind |-> "bad", batch |-> 0]
EngineFile(b) == [kind |-> "engine", batch |-> b]
FileContents == {NoFile, BadFile} \cup {EngineFile(b) : b \in BatchSizes}

VARIABLES
    pc,             \* position of the caller inside the constructor / classifyRBGA
    args,           \* the constructor's arguments
    fs,             \* the cache files on disk: path -> content
    engine,         \* TensorRTEngine::engine: "null", or how it was loaded
    maxBatchSize,   \* TensorRTEngine::maxBatchSize
    networkInputs,  \* TensorRTEngine::networkInputs
    networkOutputs, \* TensorRTEngine::networkOutputs
    model,          \* modelWidth, modelHeight, modelDepth, preprocessor
    frame,          \* locals of the classifyRBGA call in progress
    nCalls,         \* classifyRBGA calls started so far
    calls           \* log of the calls made: <<op, call number, arguments, outcome>>

vars == <<pc, args, fs, engine, maxBatchSize, networkInputs, networkOutputs,
          model, frame, nCalls, calls>>

NoFrame == [image |-> <<0, 0>>, uploaded |-> 0, preprocessedImageDevice |-> "null",
            inputs |-> [location |-> "none", batches |-> <<>>],
            outputs |-> <<>>, result |-> "null"]

Event(op, n, a, r) == [op |-> op, call |-> n, arg |-> a, res |-> r, ret |-> <<>>]
EventRet(op, n, a, v) == [op |-> op, call |-> n, arg |-> a, res |-> "ok", ret |-> <<v>>]

\* ------------------------------------------------ the constructor's pieces
\* the dimensions passed in the parameters' order, width before height
InputDimsCWH(nbChannels, width, height) == <<nbChannels, width, height>>

\* nvinfer1::DimsCHW(nbChannels, height, width)
InputDims(nbChannels, width, height) == <<nbChannels, height, width>>

\* outputDims.nbDims = 1; outputDims.d[0] = nbClasses
OutputDims(nbClasses) == <<nbClasses>>

\* loadCache(cachePath): the second argument is left to its default
LoadCacheArgs(a) == <<a.cachePath, LoadCacheDefaultMaxBatchSize>>

\* loadModel(prototextPath, modelPath, maximumBatchSize, dataType, maxNetworkSize)
LoadModelArgs(a) == <<a.maximumBatchSize>>

\* saveCache(cachePath)
SaveCacheArgs(a) == <<a.cachePath>>

\* the handler catches every exception of loadCache
CtorNextCatchAll(p, exc) ==
    CASE p = "addInput"  -> IF exc = "ok" THEN "addOutput" ELSE "failed"
      [] p = "addOutput" -> IF exc = "ok" THEN "loadCache" ELSE "failed"
      [] p = "loadCache" -> IF exc = "ok" THEN "setFields" ELSE "loadModel"
      [] p = "loadModel" -> IF exc = "ok" THEN "saveCache" ELSE "failed"
      [] p = "saveCache" -> IF exc = "ok" THEN "setFields" ELSE "failed"
      [] p = "setFields" -> "constructed"

\* saveCache placed after the try block: it runs on a cache hit too
CtorNextSaveAlways(p, exc) ==
    CASE p = "addInput"  -> IF exc = "ok" THEN "addOutput" ELSE "failed"
      [] p = "addOutput" -> IF exc = "ok" THEN "loadCache" ELSE "failed"
      [] p = "loadCache" -> IF exc = "ok" THEN "saveCache"
                            ELSE IF exc = "ModelDeserializeException" THEN "loadModel"
                            ELSE "failed"
      [] p = "loadModel" -> IF exc = "ok" THEN "saveCache" ELSE "failed"
      [] p = "saveCache" -> IF exc = "ok" THEN "setFields" ELSE "failed"
      [] p = "setFields" -> "constructed"

\* the try block placed before the output is bound
CtorNextCacheFirst(p, exc) ==
    CASE p = "addInput"  -> IF exc = "ok" THEN "loadCache" ELSE "failed"
      [] p = "loadCache" -> IF exc = "ok" THEN "addOutput"
                            ELSE IF exc = "ModelDeserializeException" THEN "loadModel"
                            ELSE "failed"
      [] p = "loadModel" -> IF exc = "ok" THEN "saveCache" ELSE "failed"
      [] p = "saveCache" -> IF exc = "ok" THEN "addOutput" ELSE "failed"
      [] p = "addOutput" -> IF exc = "ok" THEN "setFields" ELSE "failed"
      [] p = "setFields" -> "constructed"

\* an empty handler: the cache miss is swallowed and nothing is built
CtorNextSwallow(p, exc) ==
    CASE p = "addInput"  -> IF exc = "ok" THEN "addOutput" ELSE "failed"
      [] p = "addOutput" -> IF exc = "ok" THEN "loadCache" ELSE "failed"
      [] p = "loadCache" -> IF exc \in {"ok", "ModelDeserializeException"}
                            THEN "setFields" ELSE "failed"
      [] p = "loadModel" -> IF exc = "ok" THEN "saveCache" ELSE "failed"
      [] p = "saveCache" -> IF exc = "ok" THEN "setFields" ELSE "failed"
      [] p = "setFields" -> "constructed"

\* control flow of the constructor: the step after step p ended with outcome exc
CtorNext(p, exc) ==
    CASE p = "addInput"  -> IF exc = "ok" THEN "addOutput" ELSE "failed"
      [] p = "addOutput" -> IF exc = "ok" THEN "loadCache" ELSE "failed"
      [] p = "loadCache" -> IF exc = "ok" THEN "setFields"
                            ELSE IF exc = "ModelDeserializeException" THEN "loadModel"
                            ELSE "failed"
      [] p = "loadModel" -> IF exc = "ok" THEN "saveCache" ELSE "failed"
      [] p = "saveCache" -> IF exc = "ok" THEN "setFields" ELSE "failed"
      [] p = "setFields" -> "constructed"

\* ----------------------------------- the engine's methods the pieces call
\* Each gives the set of outcomes of one call: the exception it ends with
\* ("ok" for none) and the fields it leaves behind.

\* TensorRTEngine::loadCache(cachePath, maxBatchSize): a file that is missing
\* or does not deserialize ends in ModelDeserializeException
loadCache(file, maxBatchSizeArg) ==
    IF file.kind = "engine"
    THEN {[exc |-> "ok", engine |-> "loadCache", maxBatchSize |-> maxBatchSizeArg],
          [exc |-> "EngineException", engine |-> engine, maxBatchSize |-> maxBatchSize]}
    ELSE {[exc |-> "ModelDeserializeException", engine |-> engine,
           maxBatchSize |-> maxBatchSize]}

\* CaffeRTEngine::loadModel(prototextPath, modelPath, maximumBatchSize, ...)
loadModel(maximumBatchSize) ==
    {[exc |-> "ok", engine |-> "loadModel", maxBatchSize |-> maximumBatchSize],
     [exc |-> "ModelBuildException", engine |-> engine, maxBatchSize |-> maxBatchSize]}

\* TensorRTEngine::saveCache(cachePath): writes the serialized engine
saveCache(cachePath) ==
    {[exc |-> "ok", fs |-> [fs EXCEPT ![cachePath] = EngineFile(maxBatchSize)]],
     [exc |-> "ModelSerializeException", fs |-> fs]}

\* addInput / addOutput: the binding joins the engine's list
addInput(binding) == Append(networkInputs, binding)
addOutput(binding) == Append(networkOutputs, binding)

Init ==
    /\ pc = "addInput"
    /\ args \in [cachePath : Paths, nbChannels : Channels, width : Widths,
                 height : Heights, nbClasses : Classes, maximumBatchSize : BatchSizes]
    /\ fs \in [Paths -> FileContents]
    /\ engine = "null"
    /\ maxBatchSize = 0
    /\ networkInputs = <<>>
    /\ networkOutputs = <<>>
    /\ model = [width |-> 0, height |-> 0, depth |-> 0, preprocessor |-> FALSE]
    /\ frame = NoFrame
    /\ nCalls = 0
    /\ calls = <<>>

CtorAddInput ==
    /\ pc = "addInput"
    /\ LET dims == InputDims(args.nbChannels, args.width, args.height)
           b == [name |-> INPUT_NAME, dims |-> dims, eleSize |-> SizeofFloat]
       IN /\ networkInputs' = addInput(b)
          /\ calls' = Append(calls, Event("addInput", 0, <<b>>, "ok"))
    /\ pc' = CtorNext(pc, "ok")
    /\ UNCHANGED <<args, fs, engine, maxBatchSize, networkOutputs, model, frame, nCalls>>

CtorAddOutput ==
    /\ pc = "addOutput"
    /\ LET b == [name |-> OUTPUT_NAME, dims |-> OutputDims(args.nbClasses),
                 eleSize |-> SizeofFloat]
       IN /\ networkOutputs' = addOutput(b)
          /\ calls' = Append(calls, Event("addOutput", 0, <<b>>, "ok"))
    /\ pc' = CtorNext(pc, "ok")
    /\ UNCHANGED <<args, fs, engine, maxBatchSize, networkInputs, model, frame, nCalls>>

CtorLoadCache ==
    /\ pc = "loadCache"
    /\ LET a == LoadCacheArgs(args)
       IN \E r \in loadCache(fs[a[1]], a[2]) :
            /\ calls' = Append(calls, Event("loadCache", 0, a, r.exc))
            /\ engine' = r.engine
            /\ maxBatchSize' = r.maxBatchSize
            /\ pc' = CtorNext(pc, r.exc)
    /\ UNCHANGED <<args, fs, networkInputs, networkOutputs, model, frame, nCalls>>

CtorLoadModel ==
    /\ pc = "loadModel"
    /\ LET a == LoadModelArgs(args)
       IN \E r \in loadModel(a[1]) :
            /\ calls' = Append(calls, Event("loadModel", 0, a, r.exc))
            /\ engine' = r.engine
            /\ maxBatchSize' = r.maxBatchSize
            /\ pc' = CtorNext(pc, r.exc)
    /\ UNCHANGED <<args, fs, networkInputs, networkOutputs, model, frame, nCalls>>

CtorSaveCache ==
    /\ pc = "saveCache"
    /\ LET a == SaveCacheArgs(args)
       IN \E r \in saveCache(a[1]) :
            /\ calls' = Append(calls, Event("saveCache", 0, a, r.exc))
            /\ fs' = r.fs
            /\ pc' = CtorNext(pc, r.exc)
    /\ UNCHANGED <<args, engine, maxBatchSize, networkInputs, networkOutputs, model,
                   frame, nCalls>>

CtorSetFields ==
    /\ pc = "setFields"
    /\ model' = [width |-> args.width, height |-> args.height,
                 depth |-> args.nbChannels, preprocessor |-> TRUE]
    /\ pc' = CtorNext(pc, "ok")
    /\ UNCHANGED <<args, fs, engine, maxBatchSize, networkInputs, networkOutputs,
                   frame, nCalls, calls>>

Constructor ==
    \/ CtorAddInput \/ CtorAddOutput \/ CtorLoadCache
    \/ CtorLoadModel \/ CtorSaveCache \/ CtorSetFields

\* ------------------------------------------------- classifyRBGA's pieces
\* width * height * sizeof(float4)
UploadSize(width, height) == width * height * SizeofFloat4

\* RBGAtoBGR(width, height, modelWidth, modelHeight)
ConvertArgs(width, height, m) == <<width, height, m.width, m.height>>

\* the inputs declared to live in host memory
PredictionInputsHost(preprocessedImageDevice) ==
    [location |-> "HOST", batches |-> <<<<preprocessedImageDevice>>>>]

\* batchInputs(1); batchInputs[0].push_back(preprocessedImageDevice);
\* predictionInputs(LocatedExecutionMemory::DEVICE, batchInputs)
PredictionInputs(preprocessedImageDevice) ==
    [location |-> "DEVICE", batches |-> <<<<preprocessedImageDevice>>>>]

\* predictionOutputs[0][0]
ReturnValue(predictionOutputs) == predictionOutputs[1][1]

\* the conversion started before the image is uploaded
ClassifyNextConvertFirst(p, exc) ==
    IF exc # "ok" THEN "constructed"
    ELSE CASE p = "call"          -> "RBGAtoBGR"
           [] p = "RBGAtoBGR"     -> "inputFromHost"
           [] p = "inputFromHost" -> "predict"
           [] p = "predict"       -> "return"
           [] p = "return"        -> "constructed"

\* control flow of classifyRBGA: the step after step p ended with outcome exc
ClassifyNext(p, exc) ==
    IF exc # "ok" THEN "constructed"
    ELSE CASE p = "call"          -> "inputFromHost"
           [] p = "inputFromHost" -> "RBGAtoBGR"
           [] p = "RBGAtoBGR"     -> "predict"
           [] p = "predict"       -> "return"
           [] p = "return"        -> "constructed"

\* TensorRTEngine::predict(inputs, ...): what a forward pass can hand back,
\* indexed [batchIndex][outputIndex]
predict(inputs) ==
    [1..Len(inputs.batches) -> [1..Len(networkOutputs) -> OutputPtrs]]

\* the caller calls classifyRBGA on the constructed object
ClassifyCall ==
    /\ pc = "constructed"
    /\ nCalls < MaxCalls
    /\ \E img \in ImageSizes : frame' = [NoFrame EXCEPT !.image = img]
    /\ nCalls' = nCalls + 1
    /\ pc' = ClassifyNext("call", "ok")
    /\ UNCHANGED <<args, fs, engine, maxBatchSize, networkInputs, networkOutputs,
                   model, calls>>

ClassifyInputFromHost ==
    /\ pc = "inputFromHost"
    /\ LET size == UploadSize(frame.image[1], frame.image[2])
       IN \E exc \in {"ok", "CudaException"} :
            /\ calls' = Append(calls, Event("inputFromHost", nCalls, <<size>>, exc))
            /\ frame' = IF exc = "ok" THEN [frame EXCEPT !.uploaded = size] ELSE NoFrame
            /\ pc' = ClassifyNext(pc, exc)
    /\ UNCHANGED <<args, fs, engine, maxBatchSize, networkInputs, networkOutputs,
                   model, nCalls>>

ClassifyRBGAtoBGR ==
    /\ pc = "RBGAtoBGR"
    /\ LET a == ConvertArgs(frame.image[1], frame.image[2], model)
       IN \/ \E d \in DevicePtrs :
               /\ calls' = Append(calls, EventRet("RBGAtoBGR", nCalls, a, d))
               /\ frame' = [frame EXCEPT !.preprocessedImageDevice = d]
               /\ pc' = ClassifyNext(pc, "ok")
          \/ /\ calls' = Append(calls, Event("RBGAtoBGR", nCalls, a, "CudaException"))
             /\ frame' = NoFrame
             /\ pc' = ClassifyNext(pc, "CudaException")
    /\ UNCHANGED <<args, fs, engine, maxBatchSize, networkInputs, networkOutputs,
                   model, nCalls>>

ClassifyPredict ==
    /\ pc = "predict"
    /\ LET in == PredictionInputs(frame.preprocessedImageDevice)
           a == <<in, engine>>
       IN \/ \E out \in predict(in) :
               /\ calls' = Append(calls, EventRet("predict", nCalls, a, out))
               /\ frame' = [frame EXCEPT !.inputs = in, !.outputs = out]
               /\ pc' = ClassifyNext(pc, "ok")
          \/ /\ calls' = Append(calls, Event("predict", nCalls, a, "EngineExecutionException"))
             /\ frame' = NoFrame
             /\ pc' = ClassifyNext(pc, "EngineExecutionException")
    /\ UNCHANGED <<args, fs, engine, maxBatchSize, networkInputs, networkOutputs,
                   model, nCalls>>

ClassifyReturn ==
    /\ pc = "return"
    /\ LET v == ReturnValue(frame.outputs)
       IN /\ calls' = Append(calls, EventRet("return", nCalls, <<>>, v))
          /\ frame' = [frame EXCEPT !.result = v]
    /\ pc' = ClassifyNext(pc, "ok")
    /\ UNCHANGED <<args, fs, engine, maxBatchSize, networkInputs, networkOutputs,
                   model, nCalls>>

ClassifyRBGA ==
    \/ ClassifyCall \/ ClassifyInputFromHost \/ ClassifyRBGAtoBGR
    \/ ClassifyPredict \/ ClassifyReturn

Next == Constructor \/ ClassifyRBGA

Spec == Init /\ [][Next]_vars

\* ================================================================ properties
\* positions in the log of the calls of one operation
Idx(op) == {i \in DOMAIN calls : calls[i].op = op}
IdxWith(op, res) == {i \in Idx(op) : calls[i].res = res}

CtorPcs == {"addInput", "addOutput", "loadCache", "loadModel", "saveCache", "setFields"}
ClassifyPcs == {"inputFromHost", "RBGAtoBGR", "predict", "return"}
\* the constructor returned normally: the object exists
Constructed == pc \in {"constructed"} \cup ClassifyPcs
CacheHit == IdxWith("loadCache", "ok") # {}
CacheMiss == IdxWith("loadCache", "ModelDeserializeException") # {}

\* C1: the constructor tries the cache at cachePath first, and loadModel is
\* called if and only if that loadCache call ended in a
\* ModelDeserializeException; after a successful loadCache it is never called.
C1_LoadModelIffCacheMiss ==
    /\ \A j \in Idx("loadCache") : calls[j].arg[1] = args.cachePath
    /\ \A i \in Idx("loadModel") : \E j \in IdxWith("loadCache", "ModelDeserializeException") : j < i
    /\ CacheMiss => (pc = "loadModel" \/ Idx("loadModel") # {})
    /\ (Idx("loadCache") # {} /\ ~CacheMiss) => (pc # "loadModel" /\ Idx("loadModel") = {})
    /\ Cardinality(Idx("loadCache")) <= 1
    /\ Cardinality(Idx("loadModel")) <= 1

C1_Witness ==
    /\ pc = "constructed"
    /\ CacheMiss
    /\ IdxWith("loadModel", "ok") # {}

\* C2 (state part): saveCache is called exactly when loadModel was called and
\* returned normally, after it, and on the path loadCache was tried on; on a
\* cache hit it is never called.
C2_SaveCacheCalls ==
    /\ \A k \in Idx("saveCache") :
          /\ \E i \in IdxWith("loadModel", "ok") : i < k
          /\ \E j \in Idx("loadCache") : j < k /\ calls[j].arg[1] = calls[k].arg[1]
    /\ (IdxWith("loadModel", "ok") # {}) => (pc = "saveCache" \/ Idx("saveCache") # {})
    /\ (IdxWith("loadModel", "ok") = {}) => (pc # "saveCache" /\ Idx("saveCache") = {})
    /\ CacheHit => Idx("saveCache") = {}
    /\ Cardinality(Idx("saveCache")) <= 1

\* C2: saveCache is called exactly when loadModel returned normally, strictly
\* after it and with loadCache's path; on a cache hit saveCache is never
\* called and no step changes the cache files.
C2_SaveCacheAfterLoadModel ==
    /\ []C2_SaveCacheCalls
    /\ [][CacheHit' => fs' = fs]_vars

C2_Witness ==
    /\ pc = "constructed"
    /\ IdxWith("saveCache", "ok") # {}
    /\ fs[args.cachePath] = EngineFile(args.maximumBatchSize)

\* C3: loadCache is called only after addInput and addOutput, in that order,
\* and no loadModel call precedes it: every loadModel call comes after it.
C3_LoadCacheOrder ==
    /\ \A j \in Idx("loadCache") :
          /\ j = 3
          /\ calls[1].op = "addInput"
          /\ calls[2].op = "addOutput"
    /\ \A i \in Idx("loadModel") : \E j \in Idx("loadCache") : j < i
    /\ pc \notin {"addInput", "addOutput", "loadCache"} => Idx("loadCache") # {}
    /\ pc = "loadCache" => (Idx("addInput") # {} /\ Idx("addOutput") # {})

C3_Witness ==
    /\ Idx("loadModel") # {}
    /\ calls[3].op = "loadCache"

DataBinding ==
    [name |-> "data", dims |-> <<args.nbChannels, args.height, args.width>>, eleSize |-> 4]
ProbBinding ==
    [name |-> "prob", dims |-> <<args.nbClasses>>, eleSize |-> 4]

\* C4: before any engine load the constructor has registered exactly one
\* input, "data" with dimensions (nbChannels, height, width), and exactly one
\* output, "prob" with the one dimension nbClasses, both of element size
\* sizeof(float); no other binding is ever registered.
C4_Bindings ==
    /\ (pc = "loadCache" \/ Idx("loadCache") # {} \/ Idx("loadModel") # {}) =>
          /\ networkInputs = <<DataBinding>>
          /\ networkOutputs = <<ProbBinding>>
          /\ Cardinality(Idx("addInput")) = 1
          /\ Cardinality(Idx("addOutput")) = 1
    /\ \A i \in Idx("addInput") : calls[i].arg = <<DataBinding>>
    /\ \A i \in Idx("addOutput") : calls[i].arg = <<ProbBinding>>
    /\ Len(networkInputs) <= 1
    /\ Len(networkOutputs) <= 1

C4_Witness ==
    /\ Constructed
    /\ args.width # args.height
    /\ networkInputs = <<DataBinding>>
    /\ networkOutputs = <<ProbBinding>>

\* successful loads of the engine logged before position i
LoadsBefore(i) ==
    {j \in IdxWith("loadCache", "ok") \cup IdxWith("loadModel", "ok") : j < i}

\* C5: every predict call finds the engine loaded, by exactly one of
\* loadCache (cache hit) and loadModel (cache miss); a classifier whose
\* construction failed never reaches predict.
C5_PredictAfterLoad ==
    /\ \A i \in Idx("predict") :
          /\ calls[i].arg[2] \in {"loadCache", "loadModel"}
          /\ Cardinality(LoadsBefore(i)) = 1
          /\ \A j \in LoadsBefore(i) : calls[j].op = calls[i].arg[2]
    /\ pc = "predict" => engine \in {"loadCache", "loadModel"}
    /\ pc = "failed" => (Idx("predict") = {} /\ nCalls = 0)
    /\ (pc \in CtorPcs) => Idx("predict") = {}

C5_Witness ==
    /\ \E i \in Idx("predict") : calls[i].arg[2] = "loadModel" /\ calls[i].call = 2
    /\ pc = "constructed"

ClassifyOps == {"inputFromHost", "RBGAtoBGR", "predict", "return"}
\* the event ends its classifyRBGA call: it returns or throws
Terminal(e) == e.op = "return" \/ e.res # "ok"
\* event i directly follows the normal return of `op' within the same call
Follows(i, op) ==
    /\ i > 1
    /\ calls[i - 1].op = op
    /\ calls[i - 1].res = "ok"
    /\ calls[i - 1].call = calls[i].call

\* C6: each classifyRBGA call runs inputFromHost, RBGAtoBGR and predict in
\* that order, each starting after the previous one returned, and returns
\* only after predict returned; the steps of successive calls do not
\* interleave.
C6_Synchronous ==
    /\ \A i \in DOMAIN calls :
          LET e == calls[i] IN
          /\ e.op = "inputFromHost" =>
                /\ i > 1
                /\ calls[i - 1].call = e.call - 1
                /\ (e.call > 1 => Terminal(calls[i - 1]))
          /\ e.op = "RBGAtoBGR" => Follows(i, "inputFromHost")
          /\ e.op = "predict" => Follows(i, "RBGAtoBGR")
          /\ e.op = "return" => Follows(i, "predict")
          /\ e.op \in ClassifyOps => e.call \in 1..nCalls
    /\ (pc = "constructed" /\ nCalls > 0) =>
          /\ calls[Len(calls)].call = nCalls
          /\ Terminal(calls[Len(calls)])

C6_Witness ==
    /\ pc = "constructed"
    /\ nCalls = 2
    /\ Cardinality(Idx("return")) = 2

\* C7: after construction the engine's maximum batch size is the
\* constructor's maximumBatchSize, on the cache-miss path and on the
\* cache-hit path: the batch size handed to loadCache is maximumBatchSize.
C7_MaxBatchSize ==
    /\ Constructed => maxBatchSize = args.maximumBatchSize
    /\ \A i \in Idx("loadModel") : calls[i].arg[1] = args.maximumBatchSize
    /\ \A j \in Idx("loadCache") : calls[j].arg[2] = args.maximumBatchSize

\* C8: predict is handed exactly one batch of exactly one pointer, the
\* device pointer RBGAtoBGR returned in this call, located on DEVICE; the
\* caller gets output [0][0] of that same predict call.
C8_SingleBatchSingleImage ==
    /\ \A i \in Idx("predict") :
          LET in == calls[i].arg[1] IN
          /\ in.location = "DEVICE"
          /\ Len(in.batches) = 1
          /\ Len(in.batches[1]) = 1
          /\ Follows(i, "RBGAtoBGR")
          /\ in.batches[1][1] = calls[i - 1].ret[1]
    /\ \A r \in Idx("return") :
          /\ Follows(r, "predict")
          /\ calls[r].ret[1] = calls[r - 1].ret[1][1][1]
          /\ frame.result = calls[r].ret[1] \/ pc # "constructed" \/ r # Len(calls)

C8_Witness ==
    /\ pc = "constructed"
    /\ frame.result \in OutputPtrs
    /\ \E i \in Idx("predict") : calls[i].call = 2 /\ calls[i].arg[1].batches = <<<<"d2">>>>
====
